---- MODULE Spec2Model ----
(***************************************************************************)
(* Model of the windowed SFTP download of src/plugin/writer/sftp/main.py:  *)
(* download_file and _SFTPFileDownloader (download, _sftp_async_read_      *)
(* request, _async_response, _check_exception).                            *)
(*                                                                         *)
(* Bytes are not modelled one by one.  A block of data is the record       *)
(* [off |-> o, len |-> n], standing for the n bytes of the remote file     *)
(* that start at file offset o; the server builds it from the READ message *)
(* it answers, the client files it under the offset it finds in its own    *)
(* requested_chunks table.  The local file f_out is the sequence of the    *)
(* blocks written to it, in the order of the writes.                       *)
(***************************************************************************)
EXTENDS Integers, Sequences, FiniteSets, TLC

\* ------------------------------------------------------------- constants
\* _SFTPFileDownloader._DOWNLOAD_MAX_REQUESTS
_DOWNLOAD_MAX_REQUESTS == 48
\* _SFTPFileDownloader._DOWNLOAD_MAX_CHUNK_SIZE (0x8000)
_DOWNLOAD_MAX_CHUNK_SIZE == 32768

\* ---------------------------------------------------------------- bounds
\* A response may answer any request whose offset lies in the first
\* MaxReorder chunk slots above the committed prefix.
MaxReorder == 4
\* The largest remote file has _DOWNLOAD_MAX_REQUESTS + MaxExtraChunks chunks.
MaxExtraChunks == 2
\* Frames whose request number nobody is waiting for, per download.
MaxUnexpected == 1

\* The sizes st_size can report: empty, one byte, one full chunk, the
\* 100000-byte file (four chunks, the last one short), and a file with more
\* chunks than the window holds.
FileSizes ==
    { 0, 1, _DOWNLOAD_MAX_CHUNK_SIZE, 100000,
      (_DOWNLOAD_MAX_REQUESTS + MaxExtraChunks - 1) * _DOWNLOAD_MAX_CHUNK_SIZE + 1696 }

None == "None"

\* A frame: its type, its request number, the length of its data (CMD_DATA),
\* its status code (CMD_STATUS).
NoFrame == [t |-> None, num |-> 0, len |-> 0, code |-> None]

VARIABLES
    pc,                \* position of the control flow in download_file/download
    err,               \* the exception that ended the transfer, or None
    remote_file_size,  \* download_file: sftp_client.stat(remote_path).st_size
    callback,          \* None, or "set" when a data callback was passed
    file_size,         \* download: self.f_in.stat().st_size
    requested_size,
    received_size,
    requested_chunks,  \* request id -> <<offset, size>>
    received_chunks,   \* offset -> [offset, size, data]
    saved_exception,
    request_number,    \* sftp_client.request_number
    expecting,         \* keys of sftp_client._expecting that map to this downloader
    wire,              \* READ messages sent and not yet answered by the server
    requests,          \* every READ message sent, in sending order
    f_out,             \* the blocks written to the local file, in writing order
    unexpected,        \* frames received that nobody was waiting for
    ret,               \* the value download() returned, -1 before it returns
    frame,             \* the frame _read_response() is handling, NoFrame outside it
    \* sftp_writer.py, the upload retry loop
    upc,               \* position of the control flow in the retry loop
    tries,
    done,
    remote_size,       \* 1024-byte blocks of the file on the server, -1: not listed
    resuming,          \* the attempt found the file in files_list
    outcome            \* how the latest attempt ended, None before the first

vars == << pc, err, remote_file_size, callback, file_size, requested_size,
           received_size, requested_chunks, received_chunks, saved_exception,
           request_number, expecting, wire, requests, f_out, unexpected, ret,
           frame >>

\* the variables of the upload retry loop
uvars == << upc, tries, done, remote_size, resuming, outcome >>

\* the retry loop has not started
UploadIdle ==
    /\ upc = "loop"
    /\ tries = 0
    /\ done = FALSE
    /\ remote_size = -1
    /\ resuming = FALSE
    /\ outcome = None

\* ---------------------------------------------------------------- helpers
min(a, b) == IF a < b THEN a ELSE b

Empty == [x \in {} |-> 0]

\* dict.pop(key): the dict without the key
Pop_Keeps(d, k) == d

Pop(d, k) == [x \in DOMAIN d \ {k} |-> d[x]]

\* dict[key] = value
Put(d, k, v) == [x \in DOMAIN d \cup {k} |-> IF x = k THEN v ELSE d[x]]

\* len(requested_chunks) + len(received_chunks)
Outstanding == Cardinality(DOMAIN requested_chunks) + Cardinality(DOMAIN received_chunks)

RECURSIVE SumLen(_)
SumLen(s) == IF s = << >> THEN 0 ELSE s[1].len + SumLen(Tail(s))

\* os.path.getsize(local_path): the bytes written to f_out
LocalFileSize == SumLen(f_out)

\* ------------------------------------------------------------------ Init
\* download_file has taken remote_file_size and opened both files; the
\* session has used request numbers 1..3 (stat, open, and the stat to come).
Init ==
    /\ pc = "stat"
    /\ err = None
    /\ remote_file_size \in FileSizes
    /\ callback \in {None, "set"}
    /\ file_size = 0
    /\ requested_size = 0
    /\ received_size = 0
    /\ requested_chunks = Empty
    /\ received_chunks = Empty
    /\ saved_exception = None
    /\ request_number = 3
    /\ expecting = {}
    /\ wire = {}
    /\ requests = << >>
    /\ f_out = << >>
    /\ unexpected = 0
    /\ ret = -1
    /\ frame = NoFrame
    /\ UploadIdle

\* --------------------------------------------------------------- download
\* The sizes the remote file may have when download() asks, given the size
\* download_file saw: the same, or smaller (the file was cut or rewritten in
\* between), or any size when download_file saw an empty file being filled.
SizesAfter(seen) == { s \in FileSizes : s <= seen \/ seen = 0 }

\* file_size = self.f_in.stat().st_size
Stat ==
    /\ pc = "stat"
    /\ UNCHANGED uvars
    /\ \E s \in SizesAfter(remote_file_size) : file_size' = s
    /\ request_number' = request_number + 1
    /\ pc' = "send"
    /\ UNCHANGED << err, remote_file_size, callback, requested_size, received_size,
                    requested_chunks, received_chunks, saved_exception, expecting,
                    wire, requests, f_out, unexpected, ret, frame >>

\* The guard of the request loop.
CanRequest_OffByOne ==
    /\ Outstanding <= _DOWNLOAD_MAX_REQUESTS
    /\ requested_size < file_size

CanRequest_Unbounded == Outstanding < _DOWNLOAD_MAX_REQUESTS

CanRequest ==
    /\ Outstanding < _DOWNLOAD_MAX_REQUESTS
    /\ requested_size < file_size

\* chunk_size = min(self._DOWNLOAD_MAX_CHUNK_SIZE, file_size - requested_size)
ChunkSize_NoMin == _DOWNLOAD_MAX_CHUNK_SIZE

ChunkSize == min(_DOWNLOAD_MAX_CHUNK_SIZE, file_size - requested_size)

\* One turn of the request loop; _sftp_async_read_request sends the message.
SendRequest ==
    /\ pc = "send"
    /\ UNCHANGED uvars
    /\ CanRequest
    /\ LET num == request_number
           msg == [num |-> num, offset |-> requested_size, size |-> ChunkSize]
       IN /\ expecting' = expecting \cup {num}
          /\ request_number' = request_number + 1
          /\ wire' = wire \cup {msg}
          /\ requests' = Append(requests, msg)
          /\ requested_chunks' = Put(requested_chunks, num, << requested_size, ChunkSize >>)
          /\ requested_size' = requested_size + ChunkSize
    /\ UNCHANGED << pc, err, remote_file_size, callback, file_size, received_size,
                    received_chunks, saved_exception, f_out, unexpected, ret, frame >>

\* _send_packet raises: the request is registered, nothing is sent.
SendFails ==
    /\ pc = "send"
    /\ UNCHANGED uvars
    /\ CanRequest
    /\ expecting' = expecting \cup {request_number}
    /\ request_number' = request_number + 1
    /\ pc' = "failed"
    /\ err' = "SendError"
    /\ UNCHANGED << remote_file_size, callback, file_size, requested_size, received_size,
                    requested_chunks, received_chunks, saved_exception, wire,
                    requests, f_out, unexpected, ret, frame >>

\* The request loop ends; the driver goes on to _read_response().
SendDone ==
    /\ pc = "send"
    /\ UNCHANGED uvars
    /\ ~ CanRequest
    /\ pc' = "recv"
    /\ UNCHANGED << err, remote_file_size, callback, file_size, requested_size,
                    received_size, requested_chunks, received_chunks, saved_exception,
                    request_number, expecting, wire, requests, f_out, unexpected, ret,
                    frame >>

\* -------------------------------------------------------- _async_response
\* The READ messages the server may answer next.
Answerable ==
    { r \in wire : r.offset < received_size + MaxReorder * _DOWNLOAD_MAX_CHUNK_SIZE }

\* The lengths of the data a server may return for a READ of `size` bytes:
\* all of them, or one byte less (the file ends earlier than file_size said).
DataLens(size) == { size, size - 1 }

\* if size != len(data): raise SFTPError
SizeMatches_ShortAccepted(size, data) == size >= data.len

SizeMatches(size, data) == size = data.len

\* self.received_chunks[offset] = (offset, size, data)
StoreChunk_KeyedByEnd(offset, size, data) ==
    received_chunks' = Put(received_chunks, offset + size,
                           [offset |-> offset, size |-> size, data |-> data])

StoreChunk(offset, size, data) ==
    received_chunks' = Put(received_chunks, offset,
                           [offset |-> offset, size |-> size, data |-> data])

\* chunk_data is None: the frame matches no pending request and is passed
\* over; _read_response() passes over a number it does not expect likewise.
IgnoreFrame_Raises ==
    /\ pc' = "failed"
    /\ err' = "SFTPError: Unknown request"
    /\ UNCHANGED << requested_chunks, received_chunks >>

IgnoreFrame ==
    /\ pc' = "check"
    /\ UNCHANGED << err, requested_chunks, received_chunks >>

\* _async_response(CMD_DATA, msg, num) for the frame that answers READ
\* message r with n bytes of data, after _read_response() has taken num out
\* of _expecting.
DataResponse(r, n) ==
    LET num == r.num
        data == [off |-> r.offset, len |-> n]
    IN /\ num \in expecting
       /\ wire' = wire \ {r}
       /\ expecting' = expecting \ {num}
       /\ frame' = [t |-> "CMD_DATA", num |-> num, len |-> n, code |-> None]
       /\ IF num \notin DOMAIN requested_chunks
          THEN IgnoreFrame
          ELSE LET offset == requested_chunks[num][1]
                   size == requested_chunks[num][2]
               IN /\ requested_chunks' = Pop(requested_chunks, num)
                  /\ IF SizeMatches(size, data)
                     THEN /\ StoreChunk(offset, size, data)
                          /\ pc' = "check"
                          /\ UNCHANGED err
                     ELSE /\ pc' = "failed"
                          /\ err' = "SFTPError: Invalid data block size"
                          /\ UNCHANGED received_chunks

\* _read_response() reads a CMD_DATA frame for a request this downloader is
\* expected to receive, and _async_response(CMD_DATA, msg, num) handles it.
RecvData ==
    /\ pc = "recv"
    /\ UNCHANGED uvars
    /\ \E r \in Answerable : \E n \in DataLens(r.size) : DataResponse(r, n)
    /\ UNCHANGED << remote_file_size, callback, file_size, requested_size, received_size,
                    saved_exception, request_number, requests, f_out, unexpected, ret >>

\* What _async_response does with the exception _convert_status raised.
SaveException_Raised(e) ==
    /\ pc' = "failed"
    /\ err' = e
    /\ UNCHANGED saved_exception

SaveException(e) ==
    /\ saved_exception' = e
    /\ pc' = "check"
    /\ UNCHANGED err

\* A CMD_STATUS frame: _convert_status returns on SFTP_OK and raises on any
\* other code; what it raises is saved, and _async_response returns.
RecvStatus ==
    /\ pc = "recv"
    /\ UNCHANGED uvars
    /\ \E r \in Answerable : \E code \in {"SFTP_OK", "SFTP_FAILURE"} :
         /\ r.num \in expecting
         /\ wire' = wire \ {r}
         /\ expecting' = expecting \ {r.num}
         /\ frame' = [t |-> "CMD_STATUS", num |-> r.num, len |-> 0, code |-> code]
         /\ IF code = "SFTP_OK"
            THEN /\ pc' = "check"
                 /\ UNCHANGED << err, saved_exception >>
            ELSE SaveException("IOError")
    /\ UNCHANGED << remote_file_size, callback, file_size, requested_size,
                    received_size, requested_chunks, received_chunks, request_number,
                    requests, f_out, unexpected, ret >>

\* A frame that is neither CMD_STATUS nor CMD_DATA.
RecvOther ==
    /\ pc = "recv"
    /\ UNCHANGED uvars
    /\ \E r \in Answerable :
         /\ r.num \in expecting
         /\ wire' = wire \ {r}
         /\ expecting' = expecting \ {r.num}
         /\ frame' = [t |-> "CMD_NAME", num |-> r.num, len |-> 0, code |-> None]
    /\ pc' = "failed"
    /\ err' = "SFTPError: Expected data"
    /\ UNCHANGED << remote_file_size, callback, file_size, requested_size, received_size,
                    requested_chunks, received_chunks, saved_exception, request_number,
                    requests, f_out, unexpected, ret >>

\* Request numbers nobody waits for: the first and the latest READ of this
\* download once they are resolved, and the number not yet handed out.
UnexpectedNums ==
    ({ requests[i].num : i \in {1, Len(requests)} \cap DOMAIN requests }
        \cup {request_number}) \ expecting

\* A frame whose request number is not in _expecting: _read_response()
\* drops it and returns.
RecvUnexpected ==
    /\ pc = "recv"
    /\ UNCHANGED uvars
    /\ unexpected < MaxUnexpected
    /\ unexpected' = unexpected + 1
    /\ \E num \in UnexpectedNums :
         frame' = [t |-> "CMD_DATA", num |-> num, len |-> 1, code |-> None]
    /\ IgnoreFrame
    /\ UNCHANGED << remote_file_size, callback, file_size, requested_size,
                    received_size, saved_exception, request_number, expecting, wire,
                    requests, f_out, ret >>

\* What the driver does when the blocking read raises.
ReadRaises_Swallowed(e) ==
    /\ pc' = "check"
    /\ UNCHANGED err

ReadRaises(e) ==
    /\ pc' = "failed"
    /\ err' = e

\* The connection closes: _read_packet raises EOFError and _read_response()
\* raises SSHException.
RecvClosed ==
    /\ pc = "recv"
    /\ UNCHANGED uvars
    /\ frame' = [t |-> "EOF", num |-> 0, len |-> 0, code |-> None]
    /\ ReadRaises("SSHException: Server connection dropped")
    /\ UNCHANGED << remote_file_size, callback, file_size, requested_size, received_size,
                    requested_chunks, received_chunks, saved_exception, request_number,
                    expecting, wire, requests, f_out, unexpected, ret >>

\* -------------------------------------------------------- _check_exception
\* if self.saved_exception is not None
HasSavedException == saved_exception # None

CheckException ==
    /\ pc = "check"
    /\ UNCHANGED uvars
    /\ frame' = NoFrame
    /\ IF HasSavedException
       THEN /\ saved_exception' = None
            /\ err' = saved_exception
            /\ pc' = "failed"
       ELSE /\ pc' = "flush"
            /\ UNCHANGED << err, saved_exception >>
    /\ UNCHANGED << remote_file_size, callback, file_size, requested_size, received_size,
                    requested_chunks, received_chunks, request_number, expecting, wire,
                    requests, f_out, unexpected, ret >>

\* ------------------------------------------------------------ write loop
\* self.received_chunks.pop(received_size, None) finds a chunk.
HasChunk == received_size \in DOMAIN received_chunks

\* One turn of the write loop: the chunk is written, the callback (if any)
\* returns, received_size advances.
WriteChunk_Once ==
    /\ pc = "flush"
    /\ UNCHANGED uvars
    /\ HasChunk
    /\ LET chunk == received_chunks[received_size]
       IN /\ received_chunks' = Pop(received_chunks, received_size)
          /\ f_out' = Append(f_out, chunk.data)
          /\ received_size' = received_size + chunk.size
    /\ pc' = "status"
    /\ UNCHANGED << err, remote_file_size, callback, file_size, requested_size,
                    requested_chunks, saved_exception, request_number, expecting, wire,
                    requests, unexpected, ret, frame >>

WriteChunk ==
    /\ pc = "flush"
    /\ UNCHANGED uvars
    /\ HasChunk
    /\ LET chunk == received_chunks[received_size]
       IN /\ received_chunks' = Pop(received_chunks, received_size)
          /\ f_out' = Append(f_out, chunk.data)
          /\ received_size' = received_size + chunk.size
    /\ UNCHANGED << pc, err, remote_file_size, callback, file_size, requested_size,
                    requested_chunks, saved_exception, request_number, expecting, wire,
                    requests, unexpected, ret, frame >>

\* One turn of the write loop in which self.callback(chunk_data) raises:
\* the chunk is written, the exception leaves download().
CallbackRaises ==
    /\ pc = "flush"
    /\ UNCHANGED uvars
    /\ HasChunk
    /\ callback # None
    /\ LET chunk == received_chunks[received_size]
       IN /\ received_chunks' = Pop(received_chunks, received_size)
          /\ f_out' = Append(f_out, chunk.data)
    /\ pc' = "failed"
    /\ err' = "CallbackError"
    /\ UNCHANGED << remote_file_size, callback, file_size, requested_size, received_size,
                    requested_chunks, saved_exception, request_number, expecting, wire,
                    requests, unexpected, ret, frame >>

\* The write loop finds no chunk at received_size and breaks.
WriteDone ==
    /\ pc = "flush"
    /\ UNCHANGED uvars
    /\ ~ HasChunk
    /\ pc' = "status"
    /\ UNCHANGED << err, remote_file_size, callback, file_size, requested_size,
                    received_size, requested_chunks, received_chunks, saved_exception,
                    request_number, expecting, wire, requests, f_out, unexpected, ret,
                    frame >>

\* ------------------------------------------------------- end of iteration
\* if received_size >= file_size: break
TransferComplete == received_size >= file_size

\* the check of the chunk queues
QueuesStuck ==
    /\ DOMAIN requested_chunks = {}
    /\ Cardinality(DOMAIN received_chunks) >= _DOWNLOAD_MAX_REQUESTS

CheckStatus ==
    /\ pc = "status"
    /\ UNCHANGED uvars
    /\ IF TransferComplete
       THEN /\ pc' = "returned"
            /\ ret' = received_size
            /\ UNCHANGED err
       ELSE IF QueuesStuck
       THEN /\ pc' = "failed"
            /\ err' = "ValueError"
            /\ UNCHANGED ret
       ELSE /\ pc' = "send"
            /\ UNCHANGED << err, ret >>
    /\ UNCHANGED << remote_file_size, callback, file_size, requested_size, received_size,
                    requested_chunks, received_chunks, saved_exception, request_number,
                    expecting, wire, requests, f_out, unexpected, frame >>

\* ----------------------------------------------------------- download_file
\* remote_file_size != local_file_size
SizeMismatch_OnlyShort == remote_file_size > LocalFileSize

SizeMismatch == remote_file_size # LocalFileSize

CompareSizes ==
    /\ pc = "returned"
    /\ UNCHANGED uvars
    /\ IF SizeMismatch
       THEN /\ pc' = "failed"
            /\ err' = "IOError: file size mismatch"
       ELSE /\ pc' = "ok"
            /\ UNCHANGED err
    /\ UNCHANGED << remote_file_size, callback, file_size, requested_size, received_size,
                    requested_chunks, received_chunks, saved_exception, request_number,
                    expecting, wire, requests, f_out, unexpected, ret, frame >>

Next ==
    \/ Stat
    \/ SendRequest
    \/ SendFails
    \/ SendDone
    \/ RecvData
    \/ RecvStatus
    \/ RecvOther
    \/ RecvUnexpected
    \/ RecvClosed
    \/ CheckException
    \/ WriteChunk
    \/ CallbackRaises
    \/ WriteDone
    \/ CheckStatus
    \/ CompareSizes

Spec == Init /\ [][Next]_<< vars, uvars >>

\* ------------------------------------------- a server that answers every READ
\* The READ messages a well-behaved server may answer next: those of
\* Answerable, and the one with the highest offset (so that the buffered
\* chunks can grow to the window limit while the lowest one is outstanding).
AnswerableInAnyOrder ==
    Answerable \cup { r \in wire : \A q \in wire : q.offset <= r.offset }

\* _read_response() reads the CMD_DATA frame that answers a READ with all the
\* bytes it asked for.
RecvWellFormed ==
    /\ pc = "recv"
    /\ UNCHANGED uvars
    /\ \E r \in AnswerableInAnyOrder : DataResponse(r, r.size)
    /\ UNCHANGED << remote_file_size, callback, file_size, requested_size, received_size,
                    saved_exception, request_number, requests, f_out, unexpected, ret >>

\* The download against a server that answers every READ, in some order,
\* with the bytes asked for; the connection stays up, the callback returns.
NextWellFormed ==
    \/ Stat
    \/ SendRequest
    \/ SendDone
    \/ RecvWellFormed
    \/ CheckException
    \/ WriteChunk
    \/ WriteDone
    \/ CheckStatus
    \/ CompareSizes

\* No callback is passed: one that returns changes nothing in the transfer.
InitWellFormed == Init /\ callback = None

\* The driver keeps running and the server keeps answering.
SpecWellFormed ==
    InitWellFormed /\ [][NextWellFormed]_<< vars, uvars >> /\ WF_vars(NextWellFormed)
\* ------------------------------------------ sftp_writer.py: the retry loop
\* while tries < 50
MAX_TRIES == 50

\* The size of the local file, in blocks of 1024 bytes.
UploadBlocks == 2

dvars == vars

\* The state the retry loop starts in: nothing of the download is running;
\* the server may hold the file, whole or in part, from an earlier run.
InitUpload ==
    /\ pc = "stat"
    /\ err = None
    /\ remote_file_size = 0
    /\ callback = None
    /\ file_size = 0
    /\ requested_size = 0
    /\ received_size = 0
    /\ requested_chunks = Empty
    /\ received_chunks = Empty
    /\ saved_exception = None
    /\ request_number = 3
    /\ expecting = {}
    /\ wire = {}
    /\ requests = << >>
    /\ f_out = << >>
    /\ unexpected = 0
    /\ ret = -1
    /\ frame = NoFrame
    /\ upc = "loop"
    /\ tries = 0
    /\ done = FALSE
    /\ remote_size \in -1 .. UploadBlocks
    /\ resuming = FALSE
    /\ outcome = None

\* while tries < 50 and not done
LoopGuard == tries < MAX_TRIES /\ ~ done

\* The loop test holds: the try block starts with tries += 1.
StartAttempt ==
    /\ upc = "loop"
    /\ LoopGuard
    /\ tries' = tries + 1
    /\ upc' = "attempt"
    /\ UNCHANGED << done, remote_size, resuming, outcome >>
    /\ UNCHANGED dvars

\* The loop test fails: print("Done").
LeaveLoop ==
    /\ upc = "loop"
    /\ ~ LoopGuard
    /\ upc' = "end"
    /\ UNCHANGED << tries, done, remote_size, resuming, outcome >>
    /\ UNCHANGED dvars

\* Connecting, login, cwd, nlst or size raises one of BrokenPipeError,
\* ftplib.error_temp, socket.gaierror: the except clause catches it.
ConnectFails ==
    /\ upc = "attempt"
    /\ upc' = "sleep"
    /\ outcome' = "caught"
    /\ UNCHANGED << tries, done, remote_size, resuming >>
    /\ UNCHANGED dvars

\* Any other exception leaves the loop and the program.
AttemptRaises ==
    /\ upc \in {"attempt", "stor"}
    /\ upc' = "raised"
    /\ outcome' = "uncaught"
    /\ UNCHANGED << tries, done, remote_size, resuming >>
    /\ UNCHANGED dvars

\* files_list = ftp.nlst(); if os.path.basename(filename) in files_list
ChooseBranch ==
    /\ upc = "attempt"
    /\ resuming' = (remote_size # -1)
    /\ upc' = "stor"
    /\ UNCHANGED << tries, done, remote_size, outcome >>
    /\ UNCHANGED dvars

\* The block the transfer starts at: rest_pos when resuming, 0 for a fresh STOR.
StartBlock == IF resuming THEN remote_size ELSE 0

\* What a storbinary that returned does to `done`: the else branch alone
\* has done = True.
MarkDone == IF resuming THEN done ELSE TRUE

\* storbinary returns: the server holds the whole file.
StoreCompletes ==
    /\ upc = "stor"
    /\ remote_size' = UploadBlocks
    /\ done' = MarkDone
    /\ outcome' = "transferred"
    /\ upc' = "loop"
    /\ UNCHANGED << tries, resuming >>
    /\ UNCHANGED dvars

\* storbinary raises a caught error after some blocks: the server keeps
\* what it got.
StoreDies ==
    /\ upc = "stor"
    /\ \E k \in StartBlock .. UploadBlocks : remote_size' = k
    /\ outcome' = "caught"
    /\ upc' = "sleep"
    /\ UNCHANGED << tries, done, resuming >>
    /\ UNCHANGED dvars

\* time.sleep(30), then the loop test again.
SleepDone ==
    /\ upc = "sleep"
    /\ upc' = "loop"
    /\ UNCHANGED << tries, done, remote_size, resuming, outcome >>
    /\ UNCHANGED dvars

NextUpload ==
    \/ StartAttempt
    \/ LeaveLoop
    \/ ConnectFails
    \/ AttemptRaises
    \/ ChooseBranch
    \/ StoreCompletes
    \/ StoreDies
    \/ SleepDone

SpecUpload == InitUpload /\ [][NextUpload]_<< vars, uvars >>

\* ================================================================ claims
Chunk == _DOWNLOAD_MAX_CHUNK_SIZE

\* ceil(file_size / chunk size)
NumChunks == (file_size + Chunk - 1) \div Chunk

\* The blocks of s lie in file order from offset 0 on, each starting where
\* the one before it ends.
InOrderNoGap(s) ==
    \A i \in DOMAIN s :
        s[i].off = IF i = 1 THEN 0 ELSE s[i - 1].off + s[i - 1].len

\* The ordering half of C1, which no input breaks: every write starts where
\* the one before it ended, and every written block has the length filed.
SinkInFileOrder == InOrderNoGap(f_out)

\* C1: at every point the local file holds exactly the source bytes
\* [0, received_size), written in increasing offset order with no gap and no
\* offset twice, and once download() has returned it holds the whole file.
C1_SinkIsCommittedPrefix ==
    /\ InOrderNoGap(f_out)
    /\ LocalFileSize = received_size
    /\ (ret # -1 => LocalFileSize = file_size)

\* C2: pending requests plus buffered chunks never exceed the window limit.
C2_WindowBound == Outstanding <= _DOWNLOAD_MAX_REQUESTS

\* The window is full, part of it buffered chunks, with data left to request.
C2_WindowFull ==
    /\ Outstanding = _DOWNLOAD_MAX_REQUESTS
    /\ DOMAIN received_chunks # {}
    /\ requested_size < file_size
    /\ pc = "recv"

\* C3: received_size <= requested_size <= file_size in every state.
C3_SizesOrdered ==
    /\ received_size <= requested_size
    /\ requested_size <= file_size

\* The short last chunk has been requested and a flush has committed bytes.
C3_ShortLastChunkRequested ==
    /\ requested_size = file_size
    /\ file_size % Chunk # 0
    /\ file_size > Chunk
    /\ 0 < received_size
    /\ received_size < file_size
    /\ pc = "status"

\* C4: with file_size = 0 the download never waits for a frame, issues no
\* request, commits no byte, and download() does not fail.
C4_EmptyFileNeedsNoFrame ==
    (pc # "stat" /\ file_size = 0) =>
        /\ pc # "recv"
        /\ requests = << >>
        /\ received_size = 0
        /\ err \in {None, "IOError: file size mismatch"}

\* C5: the i-th READ sent asks for offset (i-1)*C and min(C, S - (i-1)*C)
\* bytes, whatever the replies; a returned download has sent ceil(S/C) of them.
C5_RequestsAreTheChunks ==
    /\ Len(requests) <= NumChunks
    /\ \A i \in DOMAIN requests :
          /\ requests[i].offset = (i - 1) * Chunk
          /\ requests[i].size = min(Chunk, file_size - (i - 1) * Chunk)
    /\ (ret # -1 => Len(requests) = NumChunks)

\* The 100000-byte file has been downloaded with four requests.
C5_FourRequests ==
    /\ ret = 100000
    /\ [i \in DOMAIN requests |-> requests[i].size] = << 32768, 32768, 32768, 1696 >>

\* C6: a data frame routed to a pending request whose size differs from the
\* frame's data length fails the download with the SFTPError, leaves
\* received_size, the buffered chunks and the local file as they were, and
\* nothing is committed after the failure.
C6_SizeMismatchFails ==
    [][ /\ ( /\ pc = "recv"
             /\ frame'.t = "CMD_DATA"
             /\ frame'.num \in expecting
             /\ frame'.num \in DOMAIN requested_chunks
             /\ frame'.len # requested_chunks[frame'.num][2] )
          => ( /\ pc' = "failed"
               /\ err' = "SFTPError: Invalid data block size"
               /\ received_size' = received_size
               /\ received_chunks' = received_chunks
               /\ f_out' = f_out )
        /\ (pc = "failed") => (pc' = "failed" /\ f_out' = f_out /\ received_size' = received_size)
      ]_vars

\* A short data block failed a transfer that had committed and buffered chunks.
C6_FailedMidTransfer ==
    /\ pc = "failed"
    /\ err = "SFTPError: Invalid data block size"
    /\ received_size > 0
    /\ DOMAIN received_chunks # {}

\* C7: an error status frame is saved, not raised inside the dispatch; while
\* it is saved the driver is at its inspection, whose step raises it with no
\* write and no request in between; a failed transfer never returns.
C7_StatusErrorDeferred ==
    [][ /\ (pc = "recv" /\ frame'.t = "CMD_STATUS" /\ frame'.code # "SFTP_OK")
          => ( /\ saved_exception' # None
               /\ pc' = "check"
               /\ err' = None
               /\ f_out' = f_out
               /\ requests' = requests )
        /\ (saved_exception # None)
          => ( /\ pc = "check"
               /\ pc' = "failed"
               /\ err' = saved_exception
               /\ f_out' = f_out
               /\ requests' = requests
               /\ received_size' = received_size )
        /\ (pc = "failed") => (pc' = "failed" /\ ret' = -1)
      ]_vars

\* A status error ended a transfer that had buffered chunks left unwritten.
C7_StatusErrorRaised ==
    /\ pc = "failed"
    /\ err = "IOError"
    /\ saved_exception = None
    /\ received_size > 0
    /\ DOMAIN received_chunks # {}

\* C8: the connection closing while received_size < file_size fails the
\* download with the transport error, received_size still below file_size,
\* and neither then nor later is a buffered chunk written.
C8_CloseFailsTransfer ==
    [][ /\ (pc = "recv" /\ received_size < file_size /\ frame'.t = "EOF")
          => ( /\ pc' = "failed"
               /\ err' = "SSHException: Server connection dropped"
               /\ received_size' = received_size
               /\ received_size' < file_size'
               /\ f_out' = f_out )
        /\ (pc = "failed" /\ frame.t = "EOF")
          => (pc' = "failed" /\ f_out' = f_out /\ received_chunks' = received_chunks)
      ]_vars

\* The connection closed on a transfer with committed bytes and buffered chunks.
C8_ClosedMidTransfer ==
    /\ pc = "failed"
    /\ err = "SSHException: Server connection dropped"
    /\ 0 < received_size
    /\ received_size < file_size
    /\ DOMAIN received_chunks # {}

\* C9: download() returns file_size, which is then the byte count of the
\* local file; download_file succeeds only if that count equals the remote
\* size it fetched at the start, and fails with the size mismatch otherwise.
C9_SuccessMeansSizesAgree ==
    [][ /\ (ret' # -1)
          => (ret' = file_size' /\ ret' = received_size' /\ ret' = LocalFileSize')
        /\ (pc' = "ok")
          => (LocalFileSize' = remote_file_size' /\ ret' = file_size')
        /\ (pc = "returned" /\ LocalFileSize # remote_file_size)
          => (pc' = "failed" /\ err' = "IOError: file size mismatch")
      ]_vars

\* download() returned the size it read, which is larger than the size
\* download_file had fetched, and download_file failed.
C9_MismatchDetected ==
    /\ pc = "failed"
    /\ err = "IOError: file size mismatch"
    /\ ret = file_size
    /\ file_size > remote_file_size

\* C10: every turn of the write loop that finds a chunk advances
\* received_size past it and goes on, also when the callback raises in it.
C10_CallbackFailureNotPropagated ==
    [][ (pc = "flush" /\ HasChunk)
          => ( /\ received_size' = received_size + received_chunks[received_size].size
               /\ pc' = "flush"
               /\ err' # "CallbackError" )
      ]_vars

\* C11: whenever the transfer has failed, the local file holds exactly the
\* source bytes [0, received_size): as many bytes as received_size says, in
\* file order from offset 0.
C11_FailedSinkIsCommittedPrefix ==
    (pc = "failed") =>
        /\ InOrderNoGap(f_out)
        /\ LocalFileSize = received_size

\* C12: against a server that answers every READ with the bytes asked for,
\* the driver never waits for a frame while no request is pending, never
\* fails, and once every request is answered it is past the receive step.
C12_NeverWaitsWithNothingPending ==
    /\ (pc = "recv") => (DOMAIN requested_chunks # {} /\ wire # {})
    /\ pc # "failed" \/ err = "IOError: file size mismatch"

\* The liveness half of C12 for a file that is not empty: the download
\* returns file_size.
NonEmptyDownloadReturns == (pc = "send" /\ file_size > 0) ~> (ret = file_size)

C14_QueuesNeverStuck ==
    /\ err # "ValueError"
    /\ ~ ( /\ pc = "status"
           /\ received_size < file_size
           /\ DOMAIN requested_chunks = {}
           /\ Cardinality(DOMAIN received_chunks) >= _DOWNLOAD_MAX_REQUESTS )

\* After a write loop that found nothing to write, all of the window but one
\* request is buffered and that one request is pending.
C14_AllButOneBuffered ==
    /\ pc = "status"
    /\ received_size < file_size
    /\ Cardinality(DOMAIN requested_chunks) = 1
    /\ Cardinality(DOMAIN received_chunks) = _DOWNLOAD_MAX_REQUESTS - 1

\* With a file that is not empty, the driver is at the receive step only
\* while a READ is on the wire.
NonEmptyWaitsForPending == (pc = "recv" /\ file_size > 0) => wire # {}

\* C15: a frame whose request number matches no pending request (not
\* expected, or not in requested_chunks) leaves the pending set, the buffered
\* set, received_size, requested_size, the saved exception and the local file
\* as they were and does not fail the transfer.
C15_UnknownFrameIgnored ==
    [][ ( /\ pc = "recv"
          /\ frame'.t \in {"CMD_DATA", "CMD_STATUS", "CMD_NAME"}
          /\ (frame'.num \notin expecting \/ frame'.num \notin DOMAIN requested_chunks) )
          => ( /\ requested_chunks' = requested_chunks
               /\ received_chunks' = received_chunks
               /\ received_size' = received_size
               /\ requested_size' = requested_size
               /\ saved_exception' = saved_exception
               /\ f_out' = f_out
               /\ expecting' = expecting
               /\ err' = None
               /\ pc' = "check" )
      ]_vars

\* The response to the first READ of the download has been delivered a
\* second time, while a request is pending and a chunk is buffered.
C15_DuplicateDelivered ==
    /\ pc = "check"
    /\ frame.t = "CMD_DATA"
    /\ requests # << >>
    /\ frame.num = requests[1].num
    /\ frame.num \notin expecting
    /\ frame.num \notin DOMAIN requested_chunks
    /\ DOMAIN requested_chunks # {}
    /\ DOMAIN received_chunks # {}
    /\ unexpected = 1

\* The byte ranges << offset, size >> of the pending requests and of the
\* buffered chunks.
PendingRanges == { requested_chunks[n] : n \in DOMAIN requested_chunks }

BufferedRanges ==
    { << received_chunks[o].offset, received_chunks[o].size >> : o \in DOMAIN received_chunks }

Ranges == PendingRanges \cup BufferedRanges

\* C16: while the download has not failed, the ranges of the pending
\* requests and of the buffered chunks partition [received_size,
\* requested_size): they are not empty, no two of them start at the same
\* offset, none starts below received_size or ends above requested_size, and
\* they form one chain: each ends where another one starts or at
\* requested_size, and received_size is where one of them starts, or is
\* requested_size when there is none.  A buffered chunk is filed under its
\* own offset.
C16_RequestedRangePartitioned ==
    (pc # "failed") =>
        /\ Cardinality({ r[1] : r \in Ranges }) = Outstanding
        /\ \A r \in Ranges :
              /\ r[2] > 0
              /\ r[1] >= received_size
              /\ r[1] + r[2] <= requested_size
        /\ { r[1] : r \in Ranges } \cup {requested_size}
              = { r[1] + r[2] : r \in Ranges } \cup {received_size}
        /\ \A o \in DOMAIN received_chunks : received_chunks[o].offset = o

\* Bytes are committed, requests are pending, chunks are buffered out of
\* order, and part of the file is not requested yet.
C16_MidTransfer ==
    /\ pc = "recv"
    /\ 0 < received_size
    /\ requested_size < file_size
    /\ DOMAIN requested_chunks # {}
    /\ Cardinality(DOMAIN received_chunks) >= 2

\* C17: the retry loop makes at most 50 attempts; it starts an attempt only
\* as the first one or after an attempt that ended in a caught error, never
\* after an attempt that transferred the file without raising.
C17_RetryOnlyAfterCaughtError ==
    [][ (tries' # tries)
          => ( /\ tries' = tries + 1
               /\ tries' <= MAX_TRIES
               /\ outcome \in {None, "caught"} )
      ]_<< vars, uvars >>
====
